---- MODULE Spec2Model ----
(***************************************************************************)
(* Model of src/src/index.ts: the retrying transport (fetchWithRetry), the *)
(* pagination driver (fetchAllPatients), the risk scorer and the run       *)
(* controller (main) of the DemoMed patient assessment client.             *)
(*                                                                         *)
(* JavaScript values are tagged records [t, n, s]:                         *)
(*   t = "num"   a finite number, n its value in hundredths (Scale)        *)
(*   t = "nan", "inf"   the non-finite numbers                             *)
(*   t = "str"   a string, s its characters (one-character strings)        *)
(*   t = "null", "undef"   null and a missing field                        *)
(***************************************************************************)
EXTENDS Integers, Sequences, FiniteSets

\* Numbers are fixed-point: the integer n stands for n / Scale.
Scale == 10 * 10

\* The number w.h (h in hundredths), e.g. Fixed(99, 60) is 99.6.
Fixed(w, h) == w * Scale + h

Num(n) == [t |-> "num", n |-> n, s |-> <<>>]
Str(s) == [t |-> "str", n |-> 0, s |-> s]
NaN == [t |-> "nan", n |-> 0, s |-> <<>>]
Infinity == [t |-> "inf", n |-> 0, s |-> <<>>]
Null == [t |-> "null", n |-> 0, s |-> <<>>]
Undef == [t |-> "undef", n |-> 0, s |-> <<>>]

Digits == {"0", "1", "2", "3", "4", "5", "6", "7", "8", "9"}
WhiteSpace == {" "}

\* UTF-16 code unit of the characters the model uses.
Code(c) ==
  CASE c = " " -> 32
    [] c = "+" -> 43
    [] c = "-" -> 45
    [] c = "." -> 46
    [] c = "/" -> 47
    [] c \in Digits -> 48 + (CHOOSE d \in 0..9 : <<"0","1","2","3","4","5","6","7","8","9">>[d + 1] = c)
    [] c = "I" -> 73
    [] c = "N" -> 78
    [] OTHER -> 97

DigitVal(c) == Code(c) - 48

RECURSIVE TrimStart(_)
TrimStart(s) ==
  IF s # <<>> /\ Head(s) \in WhiteSpace THEN TrimStart(Tail(s)) ELSE s

RECURSIVE TrimEnd(_)
TrimEnd(s) ==
  IF s # <<>> /\ s[Len(s)] \in WhiteSpace
    THEN TrimEnd(SubSeq(s, 1, Len(s) - 1))
    ELSE s

\* String.prototype.trim
Trim(s) == TrimEnd(TrimStart(s))

\* Index of the first occurrence of character c in s, 0 when there is none.
RECURSIVE IndexOfFrom(_, _, _)
IndexOfFrom(s, c, i) ==
  IF i > Len(s) THEN 0
  ELSE IF s[i] = c THEN i
  ELSE IndexOfFrom(s, c, i + 1)

IndexOf(s, c) == IndexOfFrom(s, c, 1)

\* String.prototype.split(sep) for a one-character separator.
RECURSIVE Split(_, _)
Split(s, sep) ==
  LET i == IndexOf(s, sep)
  IN  IF i = 0 THEN <<s>>
      ELSE <<SubSeq(s, 1, i - 1)>> \o Split(SubSeq(s, i + 1, Len(s)), sep)

AllDigits(s) == \A i \in 1..Len(s) : s[i] \in Digits

\* Value of a digit string as an integer (the empty string counts 0).
RECURSIVE DigitsValue(_)
DigitsValue(s) ==
  IF s = <<>> THEN 0
  ELSE 10 * DigitsValue(SubSeq(s, 1, Len(s) - 1)) + DigitVal(s[Len(s)])

\* The fraction digits f as hundredths; digits past the second are dropped
\* (the inputs of the model carry at most two).
FractionValue(f) ==
  IF Len(f) = 0 THEN 0
  ELSE IF Len(f) = 1 THEN 10 * DigitVal(f[1])
  ELSE 10 * DigitVal(f[1]) + DigitVal(f[2])

\* An unsigned decimal literal: digits [ "." [digits] ] or "." digits,
\* as the JavaScript number, or NaN when u is not one.
UnsignedDecimal(u) ==
  LET dot == IndexOf(u, ".")
      ip == IF dot = 0 THEN u ELSE SubSeq(u, 1, dot - 1)
      fp == IF dot = 0 THEN <<>> ELSE SubSeq(u, dot + 1, Len(u))
  IN  IF u = <<"I", "n", "f", "i", "n", "i", "t", "y">> THEN Infinity
      ELSE IF AllDigits(ip) /\ AllDigits(fp) /\ Len(ip) + Len(fp) > 0
        THEN Num(Scale * DigitsValue(ip) + FractionValue(fp))
        ELSE NaN

\* Number(s) for a string s: white space is stripped, the empty string is 0,
\* an optional sign precedes a decimal literal, anything else is NaN.
StringToNumber(s) ==
  LET t == Trim(s)
  IN  IF t = <<>> THEN Num(0)
      ELSE IF Head(t) \in {"+", "-"}
        THEN LET v == UnsignedDecimal(Tail(t))
             IN  IF v.t = "num" /\ Head(t) = "-" THEN Num(0 - v.n) ELSE v
        ELSE UnsignedDecimal(t)

\* isNonEmptyString(v)
isNonEmptyString(v) == v.t = "str" /\ Len(Trim(v.s)) > 0

\* toFiniteNumber(v): the finite number, or Null.
toFiniteNumber(v) ==
  IF v.t \in {"num", "nan", "inf"}
    THEN (IF v.t = "num" THEN v ELSE Null)
  ELSE IF v.t = "str"
    THEN LET n == StringToNumber(Trim(v.s))
         IN  IF n.t = "num" THEN n ELSE Null
  ELSE Null

NoBP == [ok |-> FALSE, sys |-> 0, dia |-> 0]

\* parseBloodPressure(bp): [ok, sys, dia]; ok = FALSE stands for null.
parseBloodPressure(bp) ==
  IF ~isNonEmptyString(bp) THEN NoBP
  ELSE LET parts == Split(bp.s, "/")
       IN  IF Len(parts) # 2 THEN NoBP
           ELSE LET sysStr == Trim(parts[1])
                    diaStr == Trim(parts[2])
                IN  IF sysStr = <<>> \/ diaStr = <<>> THEN NoBP
                    ELSE LET sys == toFiniteNumber(Str(sysStr))
                             dia == toFiniteNumber(Str(diaStr))
                         IN  IF sys = Null \/ dia = Null THEN NoBP
                             ELSE [ok |-> TRUE, sys |-> sys.n, dia |-> dia.n]

Max(a, b) == IF a >= b THEN a ELSE b

\* The systolic points of bloodPressureScore.
sysPoints(sys) ==
  IF sys < 120 * Scale THEN 1
  ELSE IF sys >= 120 * Scale /\ sys <= 129 * Scale THEN 2
  ELSE IF sys >= 130 * Scale /\ sys <= 139 * Scale THEN 3
  ELSE 4

\* The diastolic points of bloodPressureScore.
diaPoints(dia) ==
  IF dia < 80 * Scale THEN 1
  ELSE IF dia >= 80 * Scale /\ dia <= 89 * Scale THEN 3
  ELSE 4

bloodPressureScore(bp) ==
  LET parsed == parseBloodPressure(bp)
  IN  IF ~parsed.ok THEN 0
      ELSE Max(sysPoints(parsed.sys), diaPoints(parsed.dia))

temperatureScore(temp) ==
  LET t == toFiniteNumber(temp)
  IN  IF t = Null THEN 0
      ELSE IF t.n <= Fixed(99, 50) THEN 0
      ELSE IF t.n >= Fixed(99, 60) /\ t.n <= Fixed(100, 90) THEN 1
      ELSE IF t.n >= Fixed(101, 0) THEN 2
      ELSE 0

\* A variant that gives no point for an age up to 65.
ageScore_NoPointUpTo65(age) ==
  LET a == toFiniteNumber(age)
  IN  IF a = Null THEN 0
      ELSE IF a.n > 65 * Scale THEN 2 ELSE 0

ageScore(age) ==
  LET a == toFiniteNumber(age)
  IN  IF a = Null THEN 0
      ELSE IF a.n > 65 * Scale THEN 2 ELSE 1

hasDataQualityIssue(p) ==
  LET bpInvalid == ~parseBloodPressure(p.blood_pressure).ok
      tempInvalid == toFiniteNumber(p.temperature) = Null
      ageInvalid == toFiniteNumber(p.age) = Null
  IN  bpInvalid \/ tempInvalid \/ ageInvalid

isFeverPatient(p) ==
  LET t == toFiniteNumber(p.temperature)
  IN  t # Null /\ t.n >= Fixed(99, 60)

\* A variant that gives a flagged record no score at all.
totalRiskScore_ZeroWhenFlagged(p) ==
  IF hasDataQualityIssue(p) THEN 0
  ELSE bloodPressureScore(p.blood_pressure)
         + temperatureScore(p.temperature)
         + ageScore(p.age)

totalRiskScore(p) ==
  bloodPressureScore(p.blood_pressure)
    + temperatureScore(p.temperature)
    + ageScore(p.age)


(***************************************************************************)
(* JavaScript built-ins used by main: truthiness, Set, Array.sort          *)
(***************************************************************************)

\* !v is true for null, undefined, "", 0 and NaN.
Falsy(v) ==
  \/ v.t \in {"null", "undef", "nan"}
  \/ v.t = "str" /\ v.s = <<>>
  \/ v.t = "num" /\ v.n = 0

DigitChar(d) == <<"0", "1", "2", "3", "4", "5", "6", "7", "8", "9">>[d + 1]

RECURSIVE NatToString(_)
NatToString(k) ==
  IF k < 10 THEN <<DigitChar(k)>>
  ELSE NatToString(k \div 10) \o <<DigitChar(k % 10)>>

\* The fraction part of Number.prototype.toString, trailing zeros dropped.
FractionToString(h) ==
  IF h = 0 THEN <<>>
  ELSE IF h % 10 = 0 THEN <<".", DigitChar(h \div 10)>>
  ELSE <<".", DigitChar(h \div 10), DigitChar(h % 10)>>

\* ToString(v), the key Array.prototype.sort compares by default.
JsToString(v) ==
  CASE v.t = "str" -> v.s
    [] v.t = "num" ->
         IF v.n < 0
           THEN <<"-">> \o NatToString((0 - v.n) \div Scale)
                  \o FractionToString((0 - v.n) % Scale)
           ELSE NatToString(v.n \div Scale) \o FractionToString(v.n % Scale)
    [] v.t = "nan" -> <<"N", "a", "N">>
    [] v.t = "inf" -> <<"I", "n", "f", "i", "n", "i", "t", "y">>
    [] v.t = "null" -> <<"n", "u", "l", "l">>
    [] OTHER -> <<"u", "n", "d", "e", "f", "i", "n", "e", "d">>

\* a < b in the order of UTF-16 code units.
RECURSIVE StrLess(_, _)
StrLess(a, b) ==
  IF b = <<>> THEN FALSE
  ELSE IF a = <<>> THEN TRUE
  ELSE IF Code(Head(a)) # Code(Head(b)) THEN Code(Head(a)) < Code(Head(b))
  ELSE StrLess(Tail(a), Tail(b))

\* The default comparison of Array.prototype.sort: x goes before y.
SortBefore(x, y) == StrLess(JsToString(x), JsToString(y))

\* Insert x into the sorted list after every element that is not after it.
RECURSIVE InsertSorted(_, _)
InsertSorted(sorted, x) ==
  IF sorted = <<>> THEN <<x>>
  ELSE IF SortBefore(x, Head(sorted)) THEN <<x>> \o sorted
  ELSE <<Head(sorted)>> \o InsertSorted(Tail(sorted), x)

RECURSIVE SortFrom(_, _, _)
SortFrom(list, i, sorted) ==
  IF i > Len(list) THEN sorted
  ELSE SortFrom(list, i + 1, InsertSorted(sorted, list[i]))

\* Array.from(set).sort(): a stable sort by ToString.
Sort(list) == SortFrom(list, 1, <<>>)

Range(seq) == {seq[i] : i \in 1..Len(seq)}

\* Mutant: an array that is pushed to stands in for the Set.
SetAdd_Push(set, x) == Append(set, x)

\* Set.prototype.add; a Set is the list of its members in insertion order.
SetAdd(set, x) == IF x \in Range(set) THEN set ELSE Append(set, x)


(***************************************************************************)
(* The remote API as the model lets it answer                              *)
(***************************************************************************)

\* Pages up to this number may carry records; later pages are empty.
MaxPages == 2
\* Longest data array of one page.
MaxItems == 2
\* Most record-like entries served over a whole run.
MaxRecords == 2
\* Math.random() is one of 0/RandomDenom .. (RandomDenom-1)/RandomDenom.
RandomDenom == 2

\* An entry of a page's data array. kind = "object" with hasId is an object
\* with a patient_id key; kind = "null" and "string" are entries that are
\* no objects.
Item(kind, hasId, id, bp, temp, age) ==
  [kind |-> kind, hasId |-> hasId, patient_id |-> id,
   blood_pressure |-> bp, temperature |-> temp, age |-> age]

\* Identifiers the API sends that main keeps: "10", "9" and the number 9.
KeptIds == {Str(<<"1", "0">>), Str(<<"9">>), Num(9 * Scale)}

\* Identifiers the API sends that main skips: null and "".
SkippedIds == {Null, Str(<<>>)}

\* Total 3, with fever and a null blood pressure.
FeverVitals ==
  [bp |-> Null, temp |-> Str(<<"1", "0", "1", ".", "5">>),
   age |-> Num(30 * Scale)]

\* Total 4, with clean fields and no fever.
HighVitals ==
  [bp |-> Str(<<"1", "3", "0", "/", "8", "5">>),
   temp |-> Num(Fixed(98, 60)), age |-> Str(<<"4", "0">>)]

\* Total 4, with fever and a null blood pressure: a case of all three lists.
AllVitals ==
  [bp |-> Null, temp |-> Str(<<"1", "0", "1", ".", "5">>),
   age |-> Num(70 * Scale)]

Records ==
  {Item("object", TRUE, id, v.bp, v.temp, v.age) :
     id \in KeptIds, v \in {FeverVitals, HighVitals}}
    \cup {Item("object", TRUE, id, AllVitals.bp, AllVitals.temp, AllVitals.age) :
            id \in SkippedIds}

\* Entries that are no records: null, a string, an object without patient_id.
Junk ==
  { Item("null", FALSE, Undef, Undef, Undef, Undef),
    Item("object", FALSE, Undef, Str(<<"1", "3", "0", "/", "8", "5">>),
         Num(Fixed(102, 0)), Num(70 * Scale)) }

Items == Records \cup Junk

SeqsUpTo(S, n) == UNION {[1..k -> S] : k \in 0..n}

\* item && typeof item === "object" && "patient_id" in item
RecordLike(item) == item.kind = "object" /\ item.hasId

RECURSIVE FilterRecordLike(_)
FilterRecordLike(data) ==
  IF data = <<>> THEN <<>>
  ELSE IF RecordLike(Head(data))
    THEN <<Head(data)>> \o FilterRecordLike(Tail(data))
    ELSE FilterRecordLike(Tail(data))

\* A parsed response body: data is an array (kind "array"), absent, or some
\* other JSON value; the pagination metadata is hasNext.
Body(kind, items, hasNext) ==
  [kind |-> kind, items |-> items, hasNext |-> hasNext]

NoBody == Body("none", <<>>, FALSE)

\* Bodies the patients endpoint may send for page p after `got` records.
PageBodies(p, got) ==
  {Body(k, <<>>, h) : k \in {"absent", "other"}, h \in BOOLEAN}
    \cup {Body("array", d, h) :
            d \in {x \in SeqsUpTo(Items, MaxItems) :
                     x = <<>> \/ (p <= MaxPages
                                   /\ got + Len(FilterRecordLike(x)) <= MaxRecords)},
            h \in BOOLEAN}

\* The body of the submission's response: arbitrary JSON.
SubmitBodies == {Body("other", <<>>, FALSE)}

OkStatuses == {200}
FatalStatuses == {404}

(***************************************************************************)
(* State                                                                   *)
(***************************************************************************)
VARIABLES
  mpc,            \* where main / fetchAllPatients stands
  page,           \* fetchAllPatients: page
  all,            \* fetchAllPatients: all
  lastPage,       \* fetchAllPatients: resp and data of the loop's iteration
  requestedPages, \* page numbers fetchAllPatients asked fetchWithRetry for
  fetchDone,      \* main: fetchAllPatients has returned the patients
  highRisk,       \* main: the three Sets, in insertion order
  fever,
  dataIssues,
  submission,     \* main: submission
  submitCalls,    \* calls of submitAssessment
  exitCode,       \* -1 while running, then the process's exit code
  failedStage,    \* mpc at the time main().catch ran
  fpc,            \* where the current fetchWithRetry call stands
  method,         \* init.method of the current call
  retries,        \* fetchWithRetry: retries
  baseDelayMs,    \* fetchWithRetry: baseDelayMs
  attempt,        \* fetchWithRetry: attempt
  wait,           \* fetchWithRetry: wait of the sleep in progress
  result,         \* the body the call returned
  err,            \* the error the call threw
  lastResp,       \* the latest response of the call: [kind, status]
  attemptsMade,   \* fetch() invocations of the current call
  nwaits,         \* backoff sleeps of the current call
  onlyRetryable,  \* every failed response of the call was a retryable status
  outstanding,    \* HTTP requests in flight
  patient,        \* the record handed to the scoring functions
  scored          \* what the scoring functions return for it

mainVars ==
  <<mpc, page, all, lastPage, requestedPages, fetchDone, highRisk, fever, dataIssues,
    submission, submitCalls, exitCode, failedStage>>

callVars ==
  <<fpc, method, retries, baseDelayMs, attempt, wait, result, err, lastResp,
    attemptsMade, nwaits, onlyRetryable, outstanding>>

scoreVars == <<patient, scored>>

vars == <<mainVars, callVars, scoreVars>>

NoErr == [kind |-> "none", status |-> 0]
Err(kind, status) == [kind |-> kind, status |-> status]
Resp(kind, status) == [kind |-> kind, status |-> status]
NoPage == [n |-> 0, kind |-> "none", len |-> 0, yield |-> 0, hasNext |-> FALSE]
NoSubmission ==
  [high_risk_patients |-> <<>>, fever_patients |-> <<>>,
   data_quality_issues |-> <<>>]


(***************************************************************************)
(* fetchWithRetry                                                          *)
(***************************************************************************)
DefaultRetries == 6
DefaultBaseDelayMs == 250
SubmitRetries == 3
SubmitBaseDelayMs == 400
JitterBound == 150

\* [429, 500, 503].includes(res.status)
RetryableStatuses == {429, 500, 503}

\* Mutant: the budget is taken as the number of attempts, one too few.
LastAttempt_OffByOne(a, r) == a + 1 = r

\* Mutant: the last attempt is told one iteration too late.
LastAttempt_Late(a, r) == a > r

\* attempt === retries
LastAttempt(a, r) == a = r

\* Math.floor(Math.random() * 150), Math.random() being rnd / RandomDenom.
Jitter(rnd) == (rnd * JitterBound) \div RandomDenom

\* A variant whose delay grows linearly with the attempt.
BackoffWait_Linear(base, a, jitter) == base * (a + 1) + jitter

\* baseDelayMs * Math.pow(2, attempt) + jitter
BackoffWait(base, a, jitter) == base * 2^a + jitter

\* await fetch(url, init): the request goes out.
IssueFetch ==
  /\ fpc' = "inflight"
  /\ attemptsMade' = attemptsMade + 1
  /\ outstanding' = outstanding + 1
  /\ wait' = 0
  /\ lastResp' = Resp("none", 0)

\* fetchWithRetry(url, {method: m}, {retries: r, baseDelayMs: b}) up to its
\* first await: attempt = 0 passes the loop test (both policies have
\* retries >= 0) and fetch is called.
CallFetchWithRetry(m, r, b) ==
  /\ method' = m
  /\ retries' = r
  /\ baseDelayMs' = b
  /\ attempt' = 0
  /\ result' = NoBody
  /\ err' = NoErr
  /\ lastResp' = Resp("none", 0)
  /\ nwaits' = 0
  /\ onlyRetryable' = TRUE
  /\ fpc' = "inflight"
  /\ attemptsMade' = 1
  /\ outstanding' = outstanding + 1
  /\ wait' = 0

\* The jitter is drawn and the sleep begins.
StartBackoff ==
  \E rnd \in 0..(RandomDenom - 1) :
    /\ wait' = BackoffWait(baseDelayMs, attempt, Jitter(rnd))
    /\ fpc' = "backoff"
    /\ nwaits' = nwaits + 1
    /\ err' = NoErr

\* The call ends by throwing e.
Throw(e) ==
  /\ fpc' = "thrown"
  /\ err' = e
  /\ UNCHANGED <<wait, nwaits>>

\* A variant of the catch block that rethrows at once.
CatchBlock_AlwaysThrows(e) == Throw(e)

\* The catch block of the loop body, entered with the error e.
CatchBlock(e) ==
  IF LastAttempt(attempt, retries) THEN Throw(e) ELSE StartBackoff

\* The response has a status of [429, 500, 503].
RespondRetryable ==
  /\ fpc = "inflight"
  /\ \E status \in RetryableStatuses :
       /\ lastResp' = Resp("retryable", status)
       /\ IF LastAttempt(attempt, retries)
            THEN CatchBlock(Err("http_after_retries", status))
            ELSE StartBackoff
  /\ outstanding' = outstanding - 1
  /\ UNCHANGED <<method, retries, baseDelayMs, attempt, result, attemptsMade,
                 onlyRetryable>>
  /\ UNCHANGED mainVars
  /\ UNCHANGED scoreVars

\* The response has another status that is not ok: the error is thrown
\* inside the try block.
RespondFatal ==
  /\ fpc = "inflight"
  /\ \E status \in FatalStatuses :
       /\ lastResp' = Resp("fatal", status)
       /\ CatchBlock(Err("http", status))
  /\ outstanding' = outstanding - 1
  /\ onlyRetryable' = FALSE
  /\ UNCHANGED <<method, retries, baseDelayMs, attempt, result, attemptsMade>>
  /\ UNCHANGED mainVars
  /\ UNCHANGED scoreVars

\* fetch rejects: a network-level failure.
NetworkFailure ==
  /\ fpc = "inflight"
  /\ lastResp' = Resp("network", 0)
  /\ CatchBlock(Err("network", 0))
  /\ outstanding' = outstanding - 1
  /\ onlyRetryable' = FALSE
  /\ UNCHANGED <<method, retries, baseDelayMs, attempt, result, attemptsMade>>
  /\ UNCHANGED mainVars
  /\ UNCHANGED scoreVars

\* The response is ok and res.json() rejects.
RespondUnparsable ==
  /\ fpc = "inflight"
  /\ \E status \in OkStatuses :
       /\ lastResp' = Resp("unparsable", status)
       /\ CatchBlock(Err("parse", status))
  /\ outstanding' = outstanding - 1
  /\ onlyRetryable' = FALSE
  /\ UNCHANGED <<method, retries, baseDelayMs, attempt, result, attemptsMade>>
  /\ UNCHANGED mainVars
  /\ UNCHANGED scoreVars

\* The response is ok and res.json() yields the body: the call returns it.
RespondOk ==
  /\ fpc = "inflight"
  /\ \E status \in OkStatuses :
       lastResp' = Resp("ok", status)
  /\ \E body \in (IF method = "GET"
                    THEN PageBodies(page, Len(all))
                    ELSE SubmitBodies) :
       result' = body
  /\ fpc' = "returned"
  /\ outstanding' = outstanding - 1
  /\ UNCHANGED <<method, retries, baseDelayMs, attempt, wait, err,
                 attemptsMade, nwaits, onlyRetryable>>
  /\ UNCHANGED mainVars
  /\ UNCHANGED scoreVars

\* The sleep ends: attempt++ and the loop test; the next fetch goes out, or
\* the loop is left and the last line throws.
BackoffElapsed ==
  /\ fpc = "backoff"
  /\ attempt' = attempt + 1
  /\ IF attempt + 1 <= retries
       THEN /\ IssueFetch
            /\ UNCHANGED err
       ELSE /\ fpc' = "thrown"
            /\ err' = Err("unreachable", 0)
            /\ UNCHANGED <<attemptsMade, outstanding, wait, lastResp>>
  /\ UNCHANGED <<method, retries, baseDelayMs, result, nwaits, onlyRetryable>>
  /\ UNCHANGED mainVars
  /\ UNCHANGED scoreVars


(***************************************************************************)
(* fetchAllPatients, submitAssessment, main                                *)
(***************************************************************************)
HighRiskThreshold == 4

\* Mutant: the threshold is exclusive.
IsHighRisk_Strict(p) == totalRiskScore(p) > HighRiskThreshold

\* total >= 4
IsHighRisk(p) == totalRiskScore(p) >= HighRiskThreshold

\* if (!id) continue
SkipsRecord(p) == Falsy(p.patient_id)

\* The body of main's loop for the record p; sets = [high, fever, issues].
ClassifyOne(sets, p) ==
  IF SkipsRecord(p) THEN sets
  ELSE [high |-> IF IsHighRisk(p)
                   THEN SetAdd(sets.high, p.patient_id) ELSE sets.high,
        fever |-> IF isFeverPatient(p)
                    THEN SetAdd(sets.fever, p.patient_id) ELSE sets.fever,
        issues |-> IF hasDataQualityIssue(p)
                     THEN SetAdd(sets.issues, p.patient_id) ELSE sets.issues]

RECURSIVE ClassifyFrom(_, _, _)
ClassifyFrom(patients, i, sets) ==
  IF i > Len(patients) THEN sets
  ELSE ClassifyFrom(patients, i + 1, ClassifyOne(sets, patients[i]))

\* main's loop over the fetched patients, from three empty Sets.
ClassifyAll(patients) ==
  ClassifyFrom(patients, 1, [high |-> <<>>, fever |-> <<>>, issues |-> <<>>])

\* Array.from(set).sort()
Finalize(set) == Sort(set)

\* const data = Array.isArray(resp.data) ? resp.data : []
ExtractData(resp) == IF resp.kind = "array" THEN resp.items ELSE <<>>

\* Mutant: an empty page stops the loop only when its metadata agrees.
StopsPagination_TrustsHasNext(resp) ==
  Len(ExtractData(resp)) = 0 /\ ~resp.hasNext

\* Mutant: the loop stops on a page without record-like entries.
StopsPagination_OnNoRecords(resp) ==
  Len(FilterRecordLike(ExtractData(resp))) = 0

\* data.length === 0: the loop of fetchAllPatients breaks.
StopsPagination(resp) == Len(ExtractData(resp)) = 0

\* main calls fetchAllPatients, which asks for page 1.
main_Start ==
  /\ mpc = "start"
  /\ mpc' = "fetchPage"
  /\ page' = 1
  /\ all' = <<>>
  /\ requestedPages' = <<1>>
  /\ CallFetchWithRetry("GET", DefaultRetries, DefaultBaseDelayMs)
  /\ UNCHANGED <<lastPage, fetchDone, highRisk, fever, dataIssues, submission,
                 submitCalls, exitCode, failedStage>>
  /\ UNCHANGED scoreVars

\* A variant that puts the entries of a page before those of the earlier
\* pages.
fetchAllPatients_Resume_Prepends ==
  /\ mpc = "fetchPage"
  /\ fpc = "returned"
  /\ LET data == ExtractData(result)
         kept == FilterRecordLike(data)
     IN  /\ lastPage' = [n |-> page, kind |-> result.kind, len |-> Len(data),
                         yield |-> Len(kept), hasNext |-> result.hasNext]
         /\ IF StopsPagination(result)
              THEN /\ mpc' = "fetched"
                   /\ fetchDone' = TRUE
                   /\ UNCHANGED <<page, all>>
              ELSE /\ mpc' = "pacing"
                   /\ all' = kept \o all
                   /\ page' = page + 1
                   /\ UNCHANGED fetchDone
  /\ fpc' = "idle"
  /\ result' = NoBody
  /\ UNCHANGED <<requestedPages, highRisk, fever, dataIssues, submission,
                 submitCalls, exitCode, failedStage>>
  /\ UNCHANGED <<method, retries, baseDelayMs, attempt, wait, err, lastResp,
                 attemptsMade, nwaits, onlyRetryable, outstanding>>
  /\ UNCHANGED scoreVars

\* fetchAllPatients resumes with the page: it breaks and returns on empty
\* data, else appends the record-like entries, advances and paces.
fetchAllPatients_Resume ==
  /\ mpc = "fetchPage"
  /\ fpc = "returned"
  /\ LET data == ExtractData(result)
         kept == FilterRecordLike(data)
     IN  /\ lastPage' = [n |-> page, kind |-> result.kind, len |-> Len(data),
                         yield |-> Len(kept), hasNext |-> result.hasNext]
         /\ IF StopsPagination(result)
              THEN /\ mpc' = "fetched"
                   /\ fetchDone' = TRUE
                   /\ UNCHANGED <<page, all>>
              ELSE /\ mpc' = "pacing"
                   /\ all' = all \o kept
                   /\ page' = page + 1
                   /\ UNCHANGED fetchDone
  /\ fpc' = "idle"
  /\ result' = NoBody
  /\ UNCHANGED <<requestedPages, highRisk, fever, dataIssues, submission,
                 submitCalls, exitCode, failedStage>>
  /\ UNCHANGED <<method, retries, baseDelayMs, attempt, wait, err, lastResp,
                 attemptsMade, nwaits, onlyRetryable, outstanding>>
  /\ UNCHANGED scoreVars

\* A variant that asks for the next page while the current page's request
\* is still in flight.
fetchAllPatients_NextPage_Early ==
  /\ mpc = "fetchPage"
  /\ fpc = "inflight"
  /\ page' = page + 1
  /\ requestedPages' = Append(requestedPages, page + 1)
  /\ lastPage' = NoPage
  /\ CallFetchWithRetry("GET", DefaultRetries, DefaultBaseDelayMs)
  /\ UNCHANGED <<mpc, all, fetchDone, highRisk, fever, dataIssues,
                 submission, submitCalls, exitCode, failedStage>>
  /\ UNCHANGED scoreVars

\* The pacing sleep ends and the loop asks for the next page.
fetchAllPatients_NextPage ==
  /\ mpc = "pacing"
  /\ mpc' = "fetchPage"
  /\ requestedPages' = Append(requestedPages, page)
  /\ lastPage' = NoPage
  /\ CallFetchWithRetry("GET", DefaultRetries, DefaultBaseDelayMs)
  /\ UNCHANGED <<page, all, fetchDone, highRisk, fever, dataIssues,
                 submission, submitCalls, exitCode, failedStage>>
  /\ UNCHANGED scoreVars

\* main resumes with the patients: it classifies them, builds the
\* submission and calls submitAssessment.
main_Classify ==
  /\ mpc = "fetched"
  /\ LET sets == ClassifyAll(all)
     IN  /\ highRisk' = sets.high
         /\ fever' = sets.fever
         /\ dataIssues' = sets.issues
         /\ submission' = [high_risk_patients |-> Finalize(sets.high),
                           fever_patients |-> Finalize(sets.fever),
                           data_quality_issues |-> Finalize(sets.issues)]
  /\ submitCalls' = submitCalls + 1
  /\ mpc' = "submitting"
  /\ lastPage' = NoPage
  /\ CallFetchWithRetry("POST", SubmitRetries, SubmitBaseDelayMs)
  /\ UNCHANGED <<page, all, requestedPages, fetchDone, exitCode, failedStage>>
  /\ UNCHANGED scoreVars

\* main resumes with the submission's response and ends.
main_Finish ==
  /\ mpc = "submitting"
  /\ fpc = "returned"
  /\ mpc' = "done"
  /\ fpc' = "idle"
  /\ exitCode' = 0
  /\ UNCHANGED <<page, all, lastPage, requestedPages, fetchDone, highRisk,
                 fever, dataIssues, submission, submitCalls, failedStage>>
  /\ UNCHANGED <<method, retries, baseDelayMs, attempt, wait, result, err,
                 lastResp, attemptsMade, nwaits, onlyRetryable, outstanding>>
  /\ UNCHANGED scoreVars

\* Mutant: fetchAllPatients swallows the error of a page fetch and returns
\* the patients it has so far.
main_Catch_SubmitsPartial ==
  /\ fpc = "thrown"
  /\ mpc \in {"fetchPage", "submitting"}
  /\ failedStage' = mpc
  /\ mpc' = IF mpc = "fetchPage" THEN "fetched" ELSE "failed"
  /\ fpc' = "idle"
  /\ exitCode' = IF mpc = "fetchPage" THEN exitCode ELSE 1
  /\ UNCHANGED <<page, all, lastPage, requestedPages, fetchDone, highRisk,
                 fever, dataIssues, submission, submitCalls>>
  /\ UNCHANGED <<method, retries, baseDelayMs, attempt, wait, result, err,
                 lastResp, attemptsMade, nwaits, onlyRetryable, outstanding>>
  /\ UNCHANGED scoreVars

\* The error of fetchWithRetry passes through fetchAllPatients or
\* submitAssessment and main to main().catch: process.exit(1).
main_Catch ==
  /\ fpc = "thrown"
  /\ mpc \in {"fetchPage", "submitting"}
  /\ failedStage' = mpc
  /\ mpc' = "failed"
  /\ fpc' = "idle"
  /\ exitCode' = 1
  /\ UNCHANGED <<page, all, lastPage, requestedPages, fetchDone, highRisk,
                 fever, dataIssues, submission, submitCalls>>
  /\ UNCHANGED <<method, retries, baseDelayMs, attempt, wait, result, err,
                 lastResp, attemptsMade, nwaits, onlyRetryable, outstanding>>
  /\ UNCHANGED scoreVars

RunInit ==
  /\ mpc = "start"
  /\ page = 0
  /\ all = <<>>
  /\ lastPage = NoPage
  /\ requestedPages = <<>>
  /\ fetchDone = FALSE
  /\ highRisk = <<>>
  /\ fever = <<>>
  /\ dataIssues = <<>>
  /\ submission = NoSubmission
  /\ submitCalls = 0
  /\ exitCode = -1
  /\ failedStage = "none"
  /\ fpc = "idle"
  /\ method = "none"
  /\ retries = 0
  /\ baseDelayMs = 0
  /\ attempt = 0
  /\ wait = 0
  /\ result = NoBody
  /\ err = NoErr
  /\ lastResp = Resp("none", 0)
  /\ attemptsMade = 0
  /\ nwaits = 0
  /\ onlyRetryable = TRUE
  /\ outstanding = 0

\* A patient record as the scoring functions get it.
Patient(id, bp, temp, age) == Item("object", TRUE, id, bp, temp, age)

NoScore ==
  [done |-> FALSE, bp |-> 0, temp |-> 0, age |-> 0, total |-> 0,
   fever |-> FALSE, issue |-> FALSE]

Init ==
  /\ RunInit
  /\ patient = Patient(Null, Null, Null, Null)
  /\ scored = NoScore

Next ==
  \/ main_Start
  \/ RespondRetryable
  \/ RespondFatal
  \/ NetworkFailure
  \/ RespondUnparsable
  \/ RespondOk
  \/ BackoffElapsed
  \/ fetchAllPatients_Resume
  \/ fetchAllPatients_NextPage
  \/ main_Classify
  \/ main_Finish
  \/ main_Catch

Spec == Init /\ [][Next]_vars

(***************************************************************************)
(* One call of fetchWithRetry on its own, from either call site, after the *)
(* pages 1 .. MaxPages brought no record: the fetch of the next page by    *)
(* fetchAllPatients, and the submission by submitAssessment after that     *)
(* page came empty.                                                        *)
(***************************************************************************)
CallInit ==
  /\ page = MaxPages + 1
  /\ all = <<>>
  /\ lastPage = NoPage
  /\ requestedPages = [i \in 1..(MaxPages + 1) |-> i]
  /\ highRisk = <<>>
  /\ fever = <<>>
  /\ dataIssues = <<>>
  /\ submission = NoSubmission
  /\ exitCode = -1
  /\ failedStage = "none"
  /\ \/ /\ mpc = "fetchPage"
        /\ fetchDone = FALSE
        /\ submitCalls = 0
        /\ method = "GET"
        /\ retries = DefaultRetries
        /\ baseDelayMs = DefaultBaseDelayMs
     \/ /\ mpc = "submitting"
        /\ fetchDone = TRUE
        /\ submitCalls = 1
        /\ method = "POST"
        /\ retries = SubmitRetries
        /\ baseDelayMs = SubmitBaseDelayMs
  /\ fpc = "inflight"
  /\ attempt = 0
  /\ wait = 0
  /\ result = NoBody
  /\ err = NoErr
  /\ lastResp = Resp("none", 0)
  /\ attemptsMade = 1
  /\ nwaits = 0
  /\ onlyRetryable = TRUE
  /\ outstanding = 1
  /\ patient = Patient(Null, Null, Null, Null)
  /\ scored = NoScore

CallNext ==
  \/ RespondRetryable
  \/ RespondFatal
  \/ NetworkFailure
  \/ RespondUnparsable
  \/ RespondOk
  \/ BackoffElapsed

\* The event loop runs every continuation that is ready: a request in flight
\* is answered or fails, and a sleep ends.
FairCallSpec == CallInit /\ [][CallNext]_vars /\ WF_vars(CallNext)


(***************************************************************************)
(* The scoring functions on their own: a patient record is drawn and       *)
(* scored.                                                                 *)
(***************************************************************************)

\* Systolic and diastolic readings around the tier boundaries, whole and
\* fractional.
SysReadings ==
  { Fixed(119, 0), Fixed(119, 99), Fixed(120, 0), Fixed(129, 0),
    Fixed(129, 50), Fixed(130, 0), Fixed(139, 0), Fixed(139, 50),
    Fixed(140, 0) }

DiaReadings ==
  { Fixed(79, 0), Fixed(79, 99), Fixed(80, 0), Fixed(89, 0), Fixed(89, 50),
    Fixed(90, 0) }

Pads == {<<>>, <<" ">>}

\* The strings "S/D" of the readings, bare and padded with blanks.
WellFormedBP ==
  { Str(pad \o JsToString(Num(sy)) \o pad \o <<"/">> \o pad
          \o JsToString(Num(di)) \o pad) :
      sy \in SysReadings, di \in DiaReadings, pad \in Pads }

\* Blood pressure values of other shapes.
MalformedBP ==
  { Null, Undef, Num(120 * Scale), Str(<<>>), Str(<<" ">>),
    Str(<<"1", "2", "0">>), Str(<<"1", "2", "0", "/">>),
    Str(<<"/", "8", "0">>), Str(<<"1", "2", "0", "/", " ">>),
    Str(<<"1", "2", "0", "/", "8", "0", "/", "1">>),
    Str(<<"a", "/", "8", "0">>), Str(<<"1", "2", "0", "/", "N", "a", "N">>),
    Str(<<"1", "2", "0", "/", "I", "n", "f", "i", "n", "i", "t", "y">>) }

BPInputs == WellFormedBP \cup MalformedBP

TempInputs ==
  { Num(Fixed(98, 60)), Num(Fixed(99, 50)), Num(Fixed(99, 55)),
    Num(Fixed(99, 60)), Num(Fixed(100, 90)), Num(Fixed(100, 95)),
    Num(Fixed(101, 0)), Str(<<"9", "9", ".", "6">>),
    Str(<<" ", "1", "0", "1", " ">>), Str(<<>>), Str(<<"a">>),
    Null, Undef, NaN, Infinity }

AgeInputs ==
  { Num(0 - 5 * Scale), Num(40 * Scale), Num(65 * Scale), Num(Fixed(65, 1)),
    Num(66 * Scale), Str(<<"7", "0">>), Str(<<>>), Str(<<"a">>), Null, Undef }

ScoreInit ==
  /\ RunInit
  /\ \E bp \in BPInputs, temp \in TempInputs, age \in AgeInputs :
       patient = Patient(Str(<<"1", "0">>), bp, temp, age)
  /\ scored = NoScore

\* The scoring functions are applied to the patient.
ScorePatient ==
  /\ ~scored.done
  /\ scored' = [done |-> TRUE,
                bp |-> bloodPressureScore(patient.blood_pressure),
                temp |-> temperatureScore(patient.temperature),
                age |-> ageScore(patient.age),
                total |-> totalRiskScore(patient),
                fever |-> isFeverPatient(patient),
                issue |-> hasDataQualityIssue(patient)]
  /\ UNCHANGED <<patient, mainVars, callVars>>

ScoreNext == ScorePatient

ScoreSpec == ScoreInit /\ [][ScoreNext]_vars


(***************************************************************************)
(* Properties of the retrying transport                                    *)
(***************************************************************************)

\* C1: a response whose status is neither ok nor 429/500/503 makes the call
\* fail at once: after such a response the call has thrown an error that
\* carries the status, and no backoff sleep has begun.
C1_FatalStatusFailsImmediately ==
  lastResp.kind = "fatal" =>
    /\ fpc \in {"thrown", "idle"}
    /\ err = Err("http", lastResp.status)

\* C2: when every response before an ok, parsable one had a retryable
\* status, the call returns the body without an error after k + 1 fetches
\* and k backoff sleeps, for every k up to the budget; k <= retries
\* retryable responses alone never make the call throw.
C2_RetryableThenOkReturns ==
  /\ (fpc = "returned" /\ onlyRetryable) =>
       /\ err = NoErr
       /\ lastResp.kind = "ok"
       /\ result # NoBody
       /\ attemptsMade = nwaits + 1
       /\ nwaits = attempt
       /\ nwaits <= retries
  /\ (fpc = "thrown" /\ onlyRetryable) =>
       /\ attemptsMade = retries + 1
       /\ nwaits = retries

\* C2 witness: two retryable responses, then an ok one: the page fetch has
\* returned after three fetches and two sleeps.
C2_Witness ==
  /\ fpc = "returned"
  /\ method = "GET"
  /\ onlyRetryable
  /\ attemptsMade = 3
  /\ nwaits = 2
  /\ err = NoErr

\* C3: a call makes at most retries + 1 fetches (7 for a page, 4 for the
\* submission); once the fetch of the last attempt has failed, the call has
\* thrown the failure, it neither sleeps nor fetches again, and the
\* "unreachable" throw is never reached.
C3_AttemptsBounded ==
  /\ attemptsMade <= retries + 1
  /\ attempt <= retries
  /\ method = "GET" => attemptsMade <= 7
  /\ method = "POST" => attemptsMade <= 4
  /\ err.kind # "unreachable"
  /\ (attemptsMade = retries + 1 /\ method # "none"
        /\ lastResp.kind \in {"retryable", "fatal", "network", "unparsable"}) =>
       /\ fpc \in {"thrown", "idle"}
       /\ err.kind \in {"http_after_retries", "http", "network", "parse"}
       /\ nwaits = retries

\* C3: every call of fetchWithRetry terminates within its budget: the
\* bounds of C3_AttemptsBounded hold throughout, and a call that is waiting
\* for a response or sleeping ends by returning or throwing.
C3_CallTerminates ==
  /\ []C3_AttemptsBounded
  /\ (fpc \in {"inflight", "backoff"}) ~> (fpc \in {"returned", "thrown"})

\* C3 witness: a page fetch whose seven attempts all failed has thrown.
C3_Witness ==
  /\ fpc = "thrown"
  /\ method = "GET"
  /\ attemptsMade = 7
  /\ nwaits = 6
  /\ err.kind = "http_after_retries"

(***************************************************************************)
(* Properties of the pagination driver                                     *)
(***************************************************************************)

\* C4: on the first page whose extracted data is empty (an empty array, no
\* data, or data that is no array), whatever its hasNext, fetchAllPatients
\* returns without an error; once it has returned, the pages asked for are
\* 1 .. page and no page is asked for any more.
C4_StopsAtFirstEmptyPage ==
  /\ (lastPage.n # 0 /\ lastPage.len = 0) =>
       /\ mpc = "fetched"
       /\ fetchDone
       /\ page = lastPage.n
       /\ failedStage = "none"
  /\ fetchDone =>
       /\ mpc \notin {"start", "fetchPage", "pacing"}
       /\ requestedPages = [i \in 1..page |-> i]
       /\ failedStage # "fetchPage"

\* C4 witness: page 2 came without a data array and with hasNext = true
\* after a page of records, and the loop has stopped there.
C4_Witness ==
  /\ mpc = "fetched"
  /\ lastPage.n = 2
  /\ lastPage.kind = "absent"
  /\ lastPage.hasNext
  /\ Len(all) > 0

\* C5 as claimed: a page that yields no record-like entry ends the loop,
\* also when its data array is not empty.
C5_StopsOnNoRecordLike ==
  (lastPage.n # 0 /\ lastPage.yield = 0) => mpc # "pacing"

\* C5 as amended: the loop ends exactly on a page whose extracted data array
\* is empty; a page with a non-empty array goes on to the next page, also
\* when none of its entries is record-like.
C5_StopsExactlyOnEmptyData ==
  /\ lastPage.n # 0 =>
       \/ /\ lastPage.len = 0
          /\ mpc = "fetched"
          /\ page = lastPage.n
       \/ /\ lastPage.len > 0
          /\ mpc = "pacing"
          /\ page = lastPage.n + 1
  /\ mpc = "fetched" => (lastPage.n = page /\ lastPage.len = 0)

\* C5 witness: a page whose non-empty data array holds no record-like entry
\* has been processed, and the loop goes on.
C5_Witness ==
  /\ mpc = "pacing"
  /\ lastPage.len > 0
  /\ lastPage.yield = 0


(***************************************************************************)
(* Properties of the submission                                            *)
(***************************************************************************)

\* The identifiers of the three Sets and of the three submitted lists.
SubmittedIds ==
  Range(highRisk) \cup Range(fever) \cup Range(dataIssues)
    \cup Range(submission.high_risk_patients)
    \cup Range(submission.fever_patients)
    \cup Range(submission.data_quality_issues)

\* C6: every identifier of the three lists is the patient_id of a fetched
\* record and is a non-empty string; records whose patient_id is null, empty
\* or no string are in none of the lists.
C6_IdsAreNonEmptyStrings ==
  \A id \in SubmittedIds :
    /\ id.t = "str"
    /\ id.s # <<>>
    /\ \E i \in 1..Len(all) : all[i].patient_id = id

\* C7: submitAssessment is called at most once and only after
\* fetchAllPatients has returned without an error; when a page fetch throws,
\* the run exits with code 1 and nothing is ever submitted.
C7_NoPartialSubmission ==
  /\ submitCalls <= 1
  /\ (submitCalls > 0 \/ method = "POST") =>
       /\ fetchDone
       /\ failedStage # "fetchPage"
       /\ requestedPages = [i \in 1..page |-> i]
  /\ (mpc = "fetchPage" /\ fpc = "thrown") => submitCalls = 0
  /\ failedStage = "fetchPage" =>
       /\ mpc = "failed"
       /\ exitCode = 1
       /\ submitCalls = 0
       /\ method = "GET"
       /\ submission = NoSubmission

\* C7 witness: page 1 brought records, the fetch of page 2 threw, and the
\* run has ended with exit code 1 without a submission.
C7_Witness ==
  /\ mpc = "failed"
  /\ failedStage = "fetchPage"
  /\ page = 2
  /\ Len(all) > 0
  /\ exitCode = 1
  /\ submitCalls = 0

\* a < b in lexicographic order of the characters' code units: a is a proper
\* prefix of b, or the first character that differs is smaller in a.
LexLess(a, b) ==
  \/ Len(a) < Len(b) /\ \A i \in 1..Len(a) : a[i] = b[i]
  \/ \E k \in 1..Len(a) :
       /\ k <= Len(b)
       /\ \A i \in 1..(k - 1) : a[i] = b[i]
       /\ Code(a[k]) < Code(b[k])

\* The list holds the members of the Set, each once, in ascending
\* lexicographic order of their strings.
SortedWithoutDuplicates(list, set) ==
  /\ Range(list) = Range(set)
  /\ \A i, j \in 1..Len(list) :
       i < j => /\ list[i] # list[j]
                /\ ~LexLess(JsToString(list[j]), JsToString(list[i]))
                /\ (list[i].t = "str" /\ list[j].t = "str") =>
                     LexLess(list[i].s, list[j].s)

\* C8: each submitted list is sorted ascending in lexicographic string order
\* and holds no identifier twice, whatever pages were fetched.
C8_ListsSortedNoDuplicates ==
  /\ SortedWithoutDuplicates(submission.high_risk_patients, highRisk)
  /\ SortedWithoutDuplicates(submission.fever_patients, fever)
  /\ SortedWithoutDuplicates(submission.data_quality_issues, dataIssues)

\* C8 witness: "9" was met before "10", and the list has "10" before "9".
C8_Witness ==
  /\ submitCalls = 1
  /\ fever = <<Str(<<"9">>), Str(<<"1", "0">>)>>
  /\ submission.fever_patients = <<Str(<<"1", "0">>), Str(<<"9">>)>>

\* The identifiers main keeps among the fetched records.
KeptIdsOf(patients) ==
  {patients[i].patient_id : i \in {k \in 1..Len(patients) :
                                     ~Falsy(patients[k].patient_id)}}

\* C9: once main has classified, an identifier is in high_risk_patients
\* exactly when a fetched record with that identifier has a total of
\* bloodPressureScore + temperatureScore + ageScore of at least 4.
C9_HighRiskIffTotalAtLeast4 ==
  submitCalls > 0 =>
    \A id \in KeptIdsOf(all) \cup Range(submission.high_risk_patients) :
      id \in Range(submission.high_risk_patients) <=>
        \E i \in 1..Len(all) :
          /\ all[i].patient_id = id
          /\ bloodPressureScore(all[i].blood_pressure)
               + temperatureScore(all[i].temperature)
               + ageScore(all[i].age) >= 4

\* C9 witness: a record with total 3 and a record with total 4 were fetched;
\* only the identifier of the second is in high_risk_patients.
C9_Witness ==
  /\ submitCalls > 0
  /\ Len(all) = 2
  /\ totalRiskScore(all[1]) = 3
  /\ totalRiskScore(all[2]) = 4
  /\ all[1].patient_id = Str(<<"1", "0">>)
  /\ all[2].patient_id = Str(<<"9">>)
  /\ submission.high_risk_patients = <<Str(<<"9">>)>>

(***************************************************************************)
(* Properties of the scoring functions                                     *)
(***************************************************************************)

\* The tiers as documented: a reading between two tiers (129.5, 139.5, 89.5)
\* belongs to one of its neighbours, and 4 points need sys >= 140 or
\* dia >= 90.
SystolicTierOk(sys, pts) ==
  \/ sys < 120 * Scale /\ pts = 1
  \/ sys >= 120 * Scale /\ sys < 130 * Scale /\ pts = 2
  \/ sys > 129 * Scale /\ sys < 130 * Scale /\ pts = 3
  \/ sys >= 130 * Scale /\ sys < 140 * Scale /\ pts = 3
  \/ sys >= 140 * Scale /\ pts = 4

DiastolicTierOk(dia, pts) ==
  \/ dia < 80 * Scale /\ pts = 1
  \/ dia >= 80 * Scale /\ dia < 90 * Scale /\ pts = 3
  \/ dia >= 90 * Scale /\ pts = 4

\* C10: for every blood pressure that parses to (S, D), the score is the
\* larger of the systolic and the diastolic tier, 4 only for S >= 140 or
\* D >= 90; a blood pressure that does not parse scores 0.
C10_BloodPressureTiers ==
  scored.done =>
    LET parsed == parseBloodPressure(patient.blood_pressure)
    IN  IF parsed.ok
          THEN \E sp \in 1..4, dp \in 1..4 :
                 /\ SystolicTierOk(parsed.sys, sp)
                 /\ DiastolicTierOk(parsed.dia, dp)
                 /\ scored.bp = Max(sp, dp)
          ELSE scored.bp = 0

\* The temperature, as a number of hundredths, that a value normalizes to.
TempOf(v) == toFiniteNumber(v).n

\* C11: the temperature score is 0 for an absent or malformed temperature and
\* for every value up to 99.5, 1 from 99.6 to 100.9, 2 from 101.0 on, and a
\* higher temperature never scores less than a lower one.
C11_TemperatureTiersMonotone ==
  scored.done =>
    LET t == toFiniteNumber(patient.temperature)
    IN  /\ t = Null => scored.temp = 0
        /\ t # Null /\ t.n <= Fixed(99, 50) => scored.temp = 0
        /\ t # Null /\ t.n >= Fixed(99, 60) /\ t.n <= Fixed(100, 90)
             => scored.temp = 1
        /\ t # Null /\ t.n >= Fixed(101, 0) => scored.temp = 2
        /\ t # Null =>
             \A lower \in TempInputs :
               toFiniteNumber(lower) # Null /\ TempOf(lower) <= t.n
                 => temperatureScore(lower) <= scored.temp

\* C12: a record is flagged exactly when its blood pressure does not parse
\* or its temperature or its age does not normalize, and its total is the sum
\* of the three field scores whether it is flagged or not.
C12_FlagsAndScoresPerField ==
  scored.done =>
    /\ scored.issue <=>
         \/ ~parseBloodPressure(patient.blood_pressure).ok
         \/ toFiniteNumber(patient.temperature) = Null
         \/ toFiniteNumber(patient.age) = Null
    /\ scored.total = scored.bp + scored.temp + scored.age

\* A record with blood_pressure = null, temperature 101.0 and age 66 is
\* flagged and scores 2 + 2.
C12_Witness ==
  /\ scored.done
  /\ patient.blood_pressure = Null
  /\ patient.temperature = Num(Fixed(101, 0))
  /\ patient.age = Num(66 * Scale)
  /\ scored.issue
  /\ scored.bp = 0
  /\ scored.total = 4

(***************************************************************************)
(* Properties of the accumulated patients                                  *)
(***************************************************************************)

C13_IsRecordLike(e) == e.kind = "object" /\ e.hasId

\* What a step does to the accumulated records: a page with a non-empty data
\* array appends its record-like entries, in their order, and moves to the
\* next page; the first page without data ends the loop with the records
\* as they are; no other step touches them.
C13_PageStep ==
  IF mpc = "fetchPage" /\ fpc = "returned" /\ fpc' = "idle"
    THEN LET data == IF result.kind = "array" THEN result.items ELSE <<>>
         IN  IF data = <<>>
               THEN all' = all /\ page' = page /\ fetchDone'
               ELSE /\ all' = all \o SelectSeq(data, C13_IsRecordLike)
                    /\ page' = page + 1
                    /\ ~fetchDone'
    ELSE all' = all

\* Every page is asked for once, in order, and main classifies the records
\* fetchAllPatients returned.
C13_PagesOnceAndClassified ==
  /\ requestedPages = [i \in 1..Len(requestedPages) |-> i]
  /\ mpc \in {"fetchPage", "fetched"} => Len(requestedPages) = page
  /\ submitCalls > 0 =>
       /\ fetchDone
       /\ highRisk = ClassifyAll(all).high
       /\ fever = ClassifyAll(all).fever
       /\ dataIssues = ClassifyAll(all).issues

\* C13: the records fetchAllPatients returns, and main classifies, are the
\* record-like entries of the pages before the first empty page, in page
\* order, each page asked for once.
C13_ReturnsRecordsOfPagesInOrder ==
  []C13_PagesOnceAndClassified /\ [][C13_PageStep]_vars

\* C13 witness: pages 1 and 2 gave one record each, page 3 was empty, and
\* the two records are returned in page order after three page requests.
C13_Witness ==
  /\ mpc = "fetched"
  /\ page = 3
  /\ requestedPages = <<1, 2, 3>>
  /\ Len(all) = 2
  /\ all[1].patient_id = Str(<<"9">>)
  /\ all[2].patient_id = Str(<<"1", "0">>)
  /\ failedStage = "none"

(***************************************************************************)
(* Properties of the retry loop                                            *)
(***************************************************************************)

\* The latest attempt ended in a rejected fetch or a rejected res.json().
C14_AttemptFailed == lastResp.kind \in {"network", "unparsable"}

\* Where the call stands after such a failure: sleeping once more while
\* attempts remain, thrown with that failure on the last attempt only.
C14_RetriedWhileAttemptsRemain ==
  /\ C14_AttemptFailed =>
       /\ attempt <= retries
       /\ attempt < retries =>
            /\ fpc = "backoff"
            /\ err = NoErr
            /\ nwaits = attempt + 1
            /\ wait >= baseDelayMs * 2^attempt
       /\ attempt = retries =>
            /\ fpc = "thrown" \/ (fpc = "idle" /\ mpc = "failed")
            /\ err.kind = (IF lastResp.kind = "network" THEN "network"
                           ELSE "parse")
            /\ nwaits = attempt
  /\ (fpc = "thrown" /\ err.kind \in {"network", "parse"}) =>
       /\ attempt = retries
       /\ attemptsMade = retries + 1

\* The sleep after such a failure is followed by the next attempt.
C14_IssuesAgain ==
  (C14_AttemptFailed /\ fpc = "backoff" /\ fpc' # "backoff") =>
    /\ fpc' = "inflight"
    /\ attempt' = attempt + 1
    /\ attemptsMade' = attemptsMade + 1
    /\ outstanding' = outstanding + 1

\* C14: a network failure or an unparsable body is retried like a retryable
\* status: one backoff sleep and a new request while attempts remain; it is
\* raised only on the attempt whose index equals retries.
C14_FailuresRetriedUntilLastAttempt ==
  []C14_RetriedWhileAttemptsRemain /\ [][C14_IssuesAgain]_vars

\* C14 witness: the submission's call has thrown the parse failure of its
\* fourth attempt, after three sleeps.
C14_Witness ==
  /\ method = "POST"
  /\ fpc = "thrown"
  /\ err.kind = "parse"
  /\ lastResp.kind = "unparsable"
  /\ ~onlyRetryable
  /\ attempt = SubmitRetries
  /\ attemptsMade = SubmitRetries + 1
  /\ nwaits = SubmitRetries

(***************************************************************************)
(* Properties of the order of the page requests                            *)
(***************************************************************************)

\* At most one request is in flight, and the pages asked for are 1, 2, 3, ...
C15_OneRequestPagesInOrder ==
  /\ outstanding \in {0, 1}
  /\ outstanding = 1 <=> fpc = "inflight"
  /\ requestedPages = [i \in 1..Len(requestedPages) |-> i]

\* A page after the first is asked for only when the call for the page
\* before it has returned a non-empty collection and nothing is in flight.
C15_NextPageAfterNonEmptyPage ==
  (requestedPages' # requestedPages /\ requestedPages # <<>>) =>
    /\ lastPage.n = Len(requestedPages)
    /\ lastPage.kind = "array"
    /\ lastPage.len > 0
    /\ outstanding = 0
    /\ fpc = "idle"
    /\ requestedPages' = Append(requestedPages, lastPage.n + 1)
    /\ outstanding' = 1

\* C15: the page fetches are strictly sequential: at most one HTTP request
\* is outstanding, the pages are asked for as 1, 2, 3, ... without gaps, and
\* page n + 1 only after the call for page n returned a non-empty collection.
C15_PagesFetchedSequentially ==
  []C15_OneRequestPagesInOrder /\ [][C15_NextPageAfterNonEmptyPage]_vars

\* C15 witness: page 2 is in flight, asked for after page 1 gave records.
C15_Witness ==
  /\ mpc = "fetchPage"
  /\ fpc = "inflight"
  /\ outstanding = 1
  /\ requestedPages = <<1, 2>>
  /\ page = 2
  /\ Len(all) > 0

\* C16: one backoff sleep separates two consecutive attempts and none
\* follows the final attempt; the sleep after attempt a (counted from 0)
\* lasts baseDelayMs * 2^a plus a jitter of at least 0 and less than 150.
C16_OneExponentialWaitBetweenAttempts ==
  /\ attemptsMade = attempt + 1
  /\ fpc = "inflight" => (nwaits = attempt /\ wait = 0)
  /\ fpc = "backoff" =>
       /\ nwaits = attempt + 1
       /\ attempt < retries
       /\ wait >= baseDelayMs * 2^attempt
       /\ wait < baseDelayMs * 2^attempt + 150
  /\ fpc \in {"returned", "thrown"} =>
       /\ nwaits = attemptsMade - 1
       /\ wait = 0

\* C16 witness: the third sleep of a page call, 250 * 4 ms plus a jitter
\* that is not zero.
C16_Witness ==
  /\ method = "GET"
  /\ fpc = "backoff"
  /\ attempt = 2
  /\ nwaits = 3
  /\ attemptsMade = 3
  /\ wait > 4 * DefaultBaseDelayMs
  /\ wait < 4 * DefaultBaseDelayMs + JitterBound

(***************************************************************************)
(* Properties of the normalization                                         *)
(***************************************************************************)

\* A string that is a finite numeric literal once trimmed; the empty and the
\* blank string are none.
C17_IsNumericLiteral(s) == Trim(s) # <<>> /\ StringToNumber(s).t = "num"

\* The values that are to normalize to a number.
C17_Normalizes(v) ==
  \/ v.t = "num"
  \/ v.t = "str" /\ C17_IsNumericLiteral(v.s)

\* C17: toFiniteNumber yields a number only for a finite number or a string
\* that trims to a finite numeric literal, and null for every other value,
\* the empty string included; so a record whose temperature or age is ""
\* is flagged and scores 0 for that field.
C17_BlankIsNotANumber ==
  scored.done =>
    /\ toFiniteNumber(patient.temperature) # Null
         <=> C17_Normalizes(patient.temperature)
    /\ toFiniteNumber(patient.age) # Null <=> C17_Normalizes(patient.age)
    /\ patient.temperature = Str(<<>>) => (scored.issue /\ scored.temp = 0)
    /\ patient.age = Str(<<>>) => (scored.issue /\ scored.age = 0)

(***************************************************************************)
(* Relations between the scoring functions                                 *)
(***************************************************************************)

\* C18: a patient is a fever patient exactly when the temperature score is
\* at least 1.
C18_FeverIffTemperatureScored ==
  scored.done => (scored.fever <=> scored.temp >= 1)

\* C19: the blood pressure score is 0 exactly when the blood pressure does
\* not parse and the age score is 0 exactly when the age does not normalize;
\* so a record that is not flagged has a blood pressure score of 1 to 4, an
\* age score of 1 to 2 and a total of 2 to 8, and a total of 0 is flagged.
C19_ZeroScoreMeansUnparsed ==
  scored.done =>
    /\ scored.bp = 0 <=> ~parseBloodPressure(patient.blood_pressure).ok
    /\ scored.age = 0 <=> toFiniteNumber(patient.age) = Null
    /\ ~scored.issue =>
         /\ scored.bp \in 1..4
         /\ scored.age \in 1..2
         /\ scored.total \in 2..8
    /\ scored.total = 0 => scored.issue

\* C19 witness: a record that is not flagged, with the lowest total, 2.
C19_Witness ==
  /\ scored.done
  /\ ~scored.issue
  /\ scored.bp = 1
  /\ scored.age = 1
  /\ scored.total = 2
  /\ patient.age = Num(0 - 5 * Scale)

====
